---- MODULE Spec2Model ----
(***************************************************************************)
(* CurrencySwap canister (src/icp_rust_boilerplate_backend/src/lib.rs):    *)
(* the account ledger USER_ACCOUNTS, the order store SWAP_ORDERS, the      *)
(* ORDER_COUNTER cell and the four update calls deposit,                   *)
(* create_swap_order, execute_swap_order and cancel_swap_order.            *)
(*                                                                         *)
(* Every update call runs to completion as one message.  A Rust panic      *)
(* inside an update call traps the message, and a trapped message leaves   *)
(* no state change behind; an Err(..) return is an ordinary reply and the  *)
(* writes made before it are kept.                                         *)
(***************************************************************************)
EXTENDS Integers, Sequences, FiniteSets, TLC

(***************************************************************************)
(* Bounds of the model.                                                    *)
(***************************************************************************)
\* Largest value of the model's unsigned balance/counter/id type; stands for
\* u64::MAX so that the largest value and wrap-around are reachable.
U64Max == 3
\* Order ids tried by execute_swap_order / cancel_swap_order: 0..MaxOrderId.
MaxOrderId == 2
\* time() readings: 0..MaxTime.
MaxTime == 0

Modulus == U64Max + 1

(***************************************************************************)
(* Identities.                                                             *)
(***************************************************************************)
\* candid::Principal::anonymous()
Anonymous == "2vxsx-fae"
Principals == {Anonymous, "alice", "bob"}

(***************************************************************************)
(* A StableBTreeMap is a function on the set of its keys.                  *)
(***************************************************************************)
EmptyMap == [k \in {} |-> 0]
Has(map, k) == k \in DOMAIN map
Insert(map, k, v) == [x \in (DOMAIN map) \cup {k} |-> IF x = k THEN v ELSE map[x]]

\* #[derive(Default)] UserAccount
UserAccountDefault == [balance |-> 0]

(***************************************************************************)
(* u64 arithmetic.  `a + b` panics on overflow when the crate is built     *)
(* with overflow checks and wraps otherwise; the build decides, so both    *)
(* are outcomes (overflow_checks).                                         *)
(***************************************************************************)
AddU64(checks, a, b) ==
    IF a + b > U64Max
    THEN [panic |-> checks, val |-> (a + b) % Modulus]
    ELSE [panic |-> FALSE, val |-> a + b]

(***************************************************************************)
(* Validation.                                                             *)
(***************************************************************************)
UpperCase == {"A", "B", "C", "D", "E", "F", "G", "H", "I", "J", "K", "L", "M",
              "N", "O", "P", "Q", "R", "S", "T", "U", "V", "W", "X", "Y", "Z"}

\* CURRENCY_REGEX ^[A-Z]{3}$ on a string given as its sequence of characters
is_valid_currency(currency) ==
    /\ Len(currency) = 3
    /\ \A i \in 1 .. Len(currency) : currency[i] \in UpperCase

\* An f64 price: NaN, or a number given in tenths.
Price(tenths) == [nan |-> FALSE, tenths |-> tenths]
NaN == [nan |-> TRUE, tenths |-> 0]
\* f64 `x <= c`: false whenever x is NaN
LeF64(x, tenths) == (~x.nan) /\ x.tenths <= tenths

Market == [kind |-> "Market", price |-> Price(0)]
Limit(price) == [kind |-> "Limit", price |-> price]

\* price <= 1.2
is_price_condition_met(price) == LeF64(price, 12)

(***************************************************************************)
(* Inputs of the calls.                                                    *)
(***************************************************************************)
USD == <<"U", "S", "D">>
EUR == <<"E", "U", "R">>
BadCurrencies == {<<"u", "s", "d">>, <<"U", "S">>, <<"U", "S", "D", "D">>}
DepositChoices ==
    {<<a, USD>> : a \in {0, 1, 2, U64Max}} \cup {<<1, c>> : c \in BadCurrencies}
PriceChoices == {Price(-5), Price(0), Price(12), Price(13), NaN}
\* <<from_currency, to_currency, from_amount, to_amount, order_type>>
CreateChoices ==
    {<<USD, EUR, fa, 1, Market>> : fa \in {1, 2, U64Max}}
    \cup {<<USD, EUR, 1, 2, Market>>,
          <<EUR, USD, 1, 1, Limit(Price(12))>>, <<EUR, USD, 2, 1, Limit(Price(13))>>}
    \cup {<<USD, EUR, 0, 1, Market>>, <<USD, EUR, 1, 0, Market>>,
          <<<<"u", "s", "d">>, EUR, 1, 1, Market>>, <<USD, <<"U", "S">>, 1, 1, Market>>,
          <<USD, EUR, 1, 1, Limit(Price(0))>>, <<USD, EUR, 1, 1, Limit(Price(-5))>>,
          <<USD, EUR, 1, 1, Limit(NaN)>>}
OrderIds == 0 .. MaxOrderId
\* deposits are followed until their sum reaches DepositCap: every account
\* full, and one wrap-around more
DepositCap == Cardinality(Principals) * U64Max + Modulus
Times == 0 .. MaxTime

NoArgs == [amount |-> 0, currency |-> <<>>, from_currency |-> <<>>, to_currency |-> <<>>,
           from_amount |-> 0, to_amount |-> 0, order_type |-> Market, order_id |-> 0]

VARIABLES
    accounts,         \* USER_ACCOUNTS : StorablePrincipal -> UserAccount
    orders,           \* SWAP_ORDERS   : u64 -> SwapOrder
    counter,          \* ORDER_COUNTER
    overflow_checks,  \* whether the build panics on integer overflow
    last,             \* the last update call: op, caller, args, reply
    pre,              \* the canister state that call started from
    deposited         \* sum of the amounts of the deposit calls that replied Ok

vars == <<accounts, orders, counter, overflow_checks, last, pre, deposited>>

State == [accounts |-> accounts, orders |-> orders, counter |-> counter]

\* Outcomes of a call: a reply (Ok or Err) with the state it leaves, or a trap.
Reply(result, ret, st) == [trap |-> FALSE, result |-> result, ret |-> ret, st |-> st]
Trap(st) == [trap |-> TRUE, result |-> "Trap", ret |-> 0, st |-> st]

Balance(accts, p) == IF Has(accts, p) THEN accts[p].balance ELSE 0

(***************************************************************************)
(* deposit (lib.rs 162-180)                                                *)
(***************************************************************************)
deposit(st, checks, caller_principal, args) ==
    IF args.amount = 0 THEN Reply("InvalidAmount", 0, st)
    ELSE IF ~is_valid_currency(args.currency) THEN Reply("InvalidCurrency", 0, st)
    ELSE
        LET user_account == IF Has(st.accounts, caller_principal)
                            THEN st.accounts[caller_principal]
                            ELSE UserAccountDefault
            sum == AddU64(checks, user_account.balance, args.amount)
        IN  IF sum.panic THEN Trap(st)
            ELSE Reply("Ok", 0,
                       [st EXCEPT !.accounts =
                            Insert(@, caller_principal, [balance |-> sum.val])])

(***************************************************************************)
(* The debit guard `balance < amount` of create_swap_order (213) and       *)
(* transfer_funds (310).                                                   *)
(***************************************************************************)
lacks_funds_off_by_one(balance, amount) == balance + 1 < amount

lacks_funds(balance, amount) == balance < amount

\* `a -= b`: panics on underflow with overflow checks, wraps otherwise
SubU64(checks, a, b) ==
    IF a < b
    THEN [panic |-> checks, val |-> (a - b) % Modulus]
    ELSE [panic |-> FALSE, val |-> a - b]

(***************************************************************************)
(* RefCell: borrow_mut() panics (BorrowMutError) while a Ref handed out by *)
(* borrow() is still alive.                                                *)
(***************************************************************************)
borrow_mut_panics(live_refs) == live_refs > 0

(***************************************************************************)
(* The ORDER_COUNTER closure of create_swap_order (lib.rs 222-228):        *)
(*     let binding = counter.borrow();                                     *)
(*     let current_value = binding.get();                                  *)
(*     let new_value = current_value + 1;                                  *)
(*     counter.borrow_mut().set(new_value)...                              *)
(* `binding` is a named Ref: it is dropped when the closure returns, so it *)
(* is alive when borrow_mut() is called.                                   *)
(***************************************************************************)
next_id(checks, current_value) ==
    LET live_refs == 1          \* binding
        new_value == AddU64(checks, current_value, 1)
    IN  [panic |-> new_value.panic \/ borrow_mut_panics(live_refs),
         val   |-> new_value.val]

(***************************************************************************)
(* create_swap_order (lib.rs 191-245)                                      *)
(***************************************************************************)
\* the argument checks, lib.rs 193-203
validate_create(args) ==
    IF args.from_amount = 0 \/ args.to_amount = 0 THEN "InvalidAmount"
    ELSE IF ~is_valid_currency(args.from_currency) \/ ~is_valid_currency(args.to_currency)
    THEN "InvalidCurrency"
    ELSE IF args.order_type.kind = "Limit" /\ LeF64(args.order_type.price, 0)
    THEN "InvalidPrice"
    ELSE "Ok"

create_swap_order(st, checks, caller_principal, args, now) ==
    IF validate_create(args) # "Ok" THEN Reply(validate_create(args), 0, st)
    ELSE
        LET \* 208-211: an absent account is inserted as UserAccount::default()
            looked_up == IF Has(st.accounts, caller_principal)
                         THEN st.accounts
                         ELSE Insert(st.accounts, caller_principal, UserAccountDefault)
            user_account == looked_up[caller_principal]
        IN  IF lacks_funds(user_account.balance, args.from_amount)
            THEN Reply("InsufficientFunds", 0, [st EXCEPT !.accounts = looked_up])
            ELSE
                LET left == SubU64(checks, user_account.balance, args.from_amount)
                    debited == Insert(looked_up, caller_principal, [balance |-> left.val])
                    order_id == next_id(checks, st.counter)
                    swap_order == [id            |-> order_id.val,
                                   owner         |-> caller_principal,
                                   from_currency |-> args.from_currency,
                                   to_currency   |-> args.to_currency,
                                   from_amount   |-> args.from_amount,
                                   to_amount     |-> args.to_amount,
                                   order_type    |-> args.order_type,
                                   created_at    |-> now,
                                   status        |-> "Created"]
                IN  IF left.panic \/ order_id.panic THEN Trap(st)
                    ELSE Reply("Ok", order_id.val,
                               [accounts |-> debited,
                                orders   |-> Insert(st.orders, order_id.val, swap_order),
                                counter  |-> order_id.val])

(***************************************************************************)
(* transfer_funds (lib.rs 294-320)                                         *)
(***************************************************************************)
transfer_funds(accts, checks, from, to, amount) ==
    IF amount = 0 THEN [panic |-> FALSE, result |-> "Ok", accounts |-> accts]
    ELSE IF from = to THEN [panic |-> FALSE, result |-> "Ok", accounts |-> accts]
    ELSE IF ~Has(accts, from)
    THEN [panic |-> FALSE, result |-> "UserNotFound", accounts |-> accts]
    ELSE
        LET from_account == accts[from]
            \* 305-308: an absent payee account is inserted before the check
            looked_up == IF Has(accts, to) THEN accts
                         ELSE Insert(accts, to, UserAccountDefault)
            to_account == looked_up[to]
        IN  IF lacks_funds(from_account.balance, amount)
            THEN [panic |-> FALSE, result |-> "InsufficientFunds", accounts |-> looked_up]
            ELSE
                LET debit == SubU64(checks, from_account.balance, amount)
                    credit == AddU64(checks, to_account.balance, amount)
                IN  [panic    |-> debit.panic \/ credit.panic,
                     result   |-> "Ok",
                     accounts |-> Insert(Insert(looked_up, from, [balance |-> debit.val]),
                                         to, [balance |-> credit.val])]

(***************************************************************************)
(* execute_swap_order (lib.rs 247-292)                                     *)
(***************************************************************************)
\* lib.rs 250: executor_principal == StorablePrincipal::from(Principal::anonymous())
is_anonymous_never(principal) == FALSE

is_anonymous(principal) == principal = Anonymous

execute_swap_order(st, checks, executor_principal, order_id) ==
    IF is_anonymous(executor_principal) THEN Reply("AnonymousNotAllowed", 0, st)
    ELSE IF ~Has(st.orders, order_id) THEN Reply("InvalidOrderId", 0, st)
    ELSE
        LET swap_order == st.orders[order_id]
            owner_principal == swap_order.owner
        IN  IF swap_order.status # "Created" THEN Reply("InvalidOrderStatus", 0, st)
            ELSE IF owner_principal = executor_principal
            THEN Reply("OwnerCannotExecute", 0, st)
            ELSE IF swap_order.order_type.kind = "Limit"
                    /\ ~is_price_condition_met(swap_order.order_type.price)
            THEN Reply("PriceConditionNotMet", 0, st)
            ELSE
                LET transfer_result == transfer_funds(st.accounts, checks, executor_principal,
                                                      owner_principal, swap_order.to_amount)
                IN  IF transfer_result.panic THEN Trap(st)
                    ELSE IF transfer_result.result # "Ok"
                    THEN Reply(transfer_result.result, 0,
                               [st EXCEPT !.accounts = transfer_result.accounts])
                    ELSE Reply("Ok", 0,
                               [st EXCEPT !.accounts = transfer_result.accounts,
                                          !.orders = Insert(@, order_id,
                                              [swap_order EXCEPT !.status = "Executed"])])

(***************************************************************************)
(* cancel_swap_order (lib.rs 322-351)                                      *)
(***************************************************************************)
cancel_swap_order(st, checks, caller_principal, order_id) ==
    IF ~Has(st.orders, order_id) THEN Reply("InvalidOrderId", 0, st)
    ELSE
        LET swap_order == st.orders[order_id]
        IN  IF swap_order.status # "Created" THEN Reply("InvalidOrderStatus", 0, st)
            ELSE IF swap_order.owner # caller_principal THEN Reply("Unauthorized", 0, st)
            ELSE
                LET looked_up == IF Has(st.accounts, caller_principal)
                                 THEN st.accounts
                                 ELSE Insert(st.accounts, caller_principal, UserAccountDefault)
                    owner_account == looked_up[caller_principal]
                    refunded == AddU64(checks, owner_account.balance, swap_order.from_amount)
                IN  IF refunded.panic THEN Trap(st)
                    ELSE Reply("Ok", 0,
                               [st EXCEPT !.accounts = Insert(looked_up, caller_principal,
                                                              [balance |-> refunded.val]),
                                          !.orders = Insert(@, order_id,
                                              [swap_order EXCEPT !.status = "Cancelled"])])

\* get_user_balance (lib.rs 353-358): None is modelled as -1
get_user_balance(st, caller_principal) ==
    IF Has(st.accounts, caller_principal) THEN st.accounts[caller_principal].balance ELSE -1

(***************************************************************************)
(* The state machine: one action per update call.  A reply commits the     *)
(* state the call left; a trap commits nothing.                            *)
(***************************************************************************)
Commit(op, caller_principal, args, out) ==
    /\ pre' = State
    /\ last' = [op |-> op, caller |-> caller_principal, args |-> args,
                result |-> out.result, ret |-> out.ret]
    /\ accounts' = IF out.trap THEN accounts ELSE out.st.accounts
    /\ orders' = IF out.trap THEN orders ELSE out.st.orders
    /\ counter' = IF out.trap THEN counter ELSE out.st.counter
    /\ deposited' = IF op = "deposit" /\ out.result = "Ok"
                    THEN deposited + args.amount ELSE deposited
    /\ UNCHANGED overflow_checks

Init ==
    /\ accounts = EmptyMap
    /\ orders = EmptyMap
    /\ counter = 0
    /\ overflow_checks \in BOOLEAN
    /\ last = [op |-> "init", caller |-> Anonymous, args |-> NoArgs,
               result |-> "Ok", ret |-> 0]
    /\ pre = [accounts |-> EmptyMap, orders |-> EmptyMap, counter |-> 0]
    /\ deposited = 0

Deposit ==
    \E p \in Principals, d \in DepositChoices :
        LET args == [NoArgs EXCEPT !.amount = d[1], !.currency = d[2]]
        IN  \E out \in {deposit(State, overflow_checks, p, args)} :
                /\ out.result = "Ok" => deposited + args.amount <= DepositCap
                /\ Commit("deposit", p, args, out)

CreateSwapOrder ==
    \E p \in Principals, c \in CreateChoices, now \in Times :
        LET args == [NoArgs EXCEPT !.from_currency = c[1], !.to_currency = c[2],
                                   !.from_amount = c[3], !.to_amount = c[4],
                                   !.order_type = c[5]]
        IN  \E out \in {create_swap_order(State, overflow_checks, p, args, now)} :
                Commit("create_swap_order", p, args, out)

ExecuteSwapOrder ==
    \E p \in Principals, id \in OrderIds :
        \E out \in {execute_swap_order(State, overflow_checks, p, id)} :
            Commit("execute_swap_order", p, [NoArgs EXCEPT !.order_id = id], out)

CancelSwapOrder ==
    \E p \in Principals, id \in OrderIds :
        \E out \in {cancel_swap_order(State, overflow_checks, p, id)} :
            Commit("cancel_swap_order", p, [NoArgs EXCEPT !.order_id = id], out)

Next == Deposit \/ CreateSwapOrder \/ ExecuteSwapOrder \/ CancelSwapOrder

Spec == Init /\ [][Next]_vars

(***************************************************************************)
(* Sums over the two stores.                                               *)
(***************************************************************************)
RECURSIVE SumOver(_, _)
SumOver(S, f) ==
    IF S = {} THEN 0
    ELSE LET x == CHOOSE y \in S : TRUE IN f[x] + SumOver(S \ {x}, f)

SumBalances(accts) == SumOver(DOMAIN accts, [p \in DOMAIN accts |-> accts[p].balance])

Escrowed(ords, status) ==
    LET ids == {k \in DOMAIN ords : ords[k].status = status}
    IN  SumOver(ids, [k \in ids |-> ords[k].from_amount])

SameBalances(a, b) == \A p \in Principals : Balance(a, p) = Balance(b, p)

(***************************************************************************)
(* No update call ever stores an order or moves the counter: the only      *)
(* insert of a new key (lib.rs 242) and the only counter write (226) lie   *)
(* behind the borrow_mut() of next_id, which panics.                       *)
(***************************************************************************)
NoOrderIsEverStored == orders = EmptyMap /\ counter = 0

(***************************************************************************)
(* C1.  A create_swap_order call with nonzero amounts, valid currencies, a *)
(* valid order type and from_amount <= the caller's balance succeeds: it   *)
(* debits exactly from_amount, advances the counter by exactly 1, stores   *)
(* the order under the new id with status Created, owner = caller and the  *)
(* given amounts, and returns the new id (1 on a fresh store).             *)
(***************************************************************************)
C1_FundedCreate ==
    /\ last.op = "create_swap_order"
    /\ validate_create(last.args) = "Ok"
    /\ last.args.from_amount <= Balance(pre.accounts, last.caller)

C1_CreateSucceeds ==
    C1_FundedCreate =>
        /\ last.result = "Ok"
        /\ last.ret = pre.counter + 1
        /\ pre.counter = 0 => last.ret = 1
        /\ counter = pre.counter + 1
        /\ Balance(accounts, last.caller)
               = Balance(pre.accounts, last.caller) - last.args.from_amount
        /\ Has(orders, last.ret)
        /\ orders[last.ret].status = "Created"
        /\ orders[last.ret].owner = last.caller
        /\ orders[last.ret].from_amount = last.args.from_amount
        /\ orders[last.ret].to_amount = last.args.to_amount

(***************************************************************************)
(* C2.  Conservation: in every reachable state the sum of all account      *)
(* balances plus the sum of from_amount over the orders with status        *)
(* Created equals the sum of all amounts successfully deposited.           *)
(***************************************************************************)
C2_Conservation ==
    SumBalances(accounts) + Escrowed(orders, "Created") = deposited

(***************************************************************************)
(* C3.  A create_swap_order call that passes validation but whose          *)
(* from_amount exceeds the caller's balance (absent account = 0) returns   *)
(* InsufficientFunds and leaves the caller's balance, every other balance, *)
(* the order store and the order counter unchanged.                        *)
(***************************************************************************)
C3_UnderfundedCreate ==
    /\ last.op = "create_swap_order"
    /\ validate_create(last.args) = "Ok"
    /\ last.args.from_amount > Balance(pre.accounts, last.caller)

C3_InsufficientFundsNoEffect ==
    C3_UnderfundedCreate =>
        /\ last.result = "InsufficientFunds"
        /\ SameBalances(accounts, pre.accounts)
        /\ orders = pre.orders
        /\ counter = pre.counter

\* an underfunded create by a caller who holds a smaller, nonzero balance,
\* while another identity holds funds too
C3_Witness ==
    /\ C3_UnderfundedCreate
    /\ last.result = "InsufficientFunds"
    /\ Balance(pre.accounts, last.caller) > 0
    /\ \E p \in Principals \ {last.caller} : Balance(accounts, p) > 0

(***************************************************************************)
(* Cases of the later order claims that occur without a stored order.      *)
(* Every other case of C4-C10 starts from an order in the store, and by    *)
(* NoOrderIsEverStored there is none in any reachable state.               *)
(***************************************************************************)
Unchanged == accounts = pre.accounts /\ orders = pre.orders /\ counter = pre.counter

\* the anonymous case of C6: execute_swap_order by the anonymous identity
\* replies AnonymousNotAllowed for every order id and changes nothing
ExecuteByAnonymousRejected ==
    (last.op = "execute_swap_order" /\ last.caller = Anonymous) =>
        last.result = "AnonymousNotAllowed" /\ Unchanged

\* the absent-order case of C9: cancel_swap_order of an id that is not in
\* the store replies InvalidOrderId and changes nothing
CancelOfAbsentOrderRejected ==
    (last.op = "cancel_swap_order" /\ ~Has(pre.orders, last.args.order_id)) =>
        last.result = "InvalidOrderId" /\ Unchanged

\* the only replies execute_swap_order and cancel_swap_order ever give
OrderCallsFindNoOrder ==
    /\ last.op = "execute_swap_order" =>
           last.result \in {"AnonymousNotAllowed", "InvalidOrderId"}
    /\ last.op = "cancel_swap_order" => last.result = "InvalidOrderId"

(***************************************************************************)
(* C12.  An account record exists for an identity (get_user_balance gives  *)
(* a value, not None) only if that identity has been credited: a record    *)
(* appears only in a call that replies Ok and credits that identity (the   *)
(* caller of deposit, the caller of cancel_swap_order, the owner in        *)
(* execute_swap_order); no failed call and no debit attempt creates one.   *)
(***************************************************************************)
CreditedBy(call, before) ==
    IF call.result # "Ok" THEN {}
    ELSE IF call.op \in {"deposit", "cancel_swap_order"} THEN {call.caller}
    ELSE IF call.op = "execute_swap_order" /\ Has(before.orders, call.args.order_id)
    THEN {before.orders[call.args.order_id].owner}
    ELSE {}

C12_RecordOnlyOnCredit ==
    \A p \in Principals :
        (get_user_balance(State, p) # -1 /\ get_user_balance(pre, p) = -1)
            => p \in CreditedBy(last, pre)

(***************************************************************************)
(* C16.  Crediting never fails and is exact: a deposit with a nonzero      *)
(* amount and a valid currency replies Ok and leaves the caller's balance  *)
(* at the previous balance plus the amount, for every amount of the u64    *)
(* range; likewise the refund of cancel_swap_order and the settlement      *)
(* credit of execute_swap_order add exactly the credited amount.           *)
(***************************************************************************)
C16_CreditExact ==
    /\ (last.op = "deposit" /\ last.args.amount # 0
            /\ is_valid_currency(last.args.currency)) =>
           /\ last.result = "Ok"
           /\ Balance(accounts, last.caller)
                  = Balance(pre.accounts, last.caller) + last.args.amount
    /\ (last.op = "cancel_swap_order" /\ last.result = "Ok") =>
           Balance(accounts, last.caller)
               = Balance(pre.accounts, last.caller)
                     + pre.orders[last.args.order_id].from_amount
    /\ (last.op = "execute_swap_order" /\ last.result = "Ok") =>
           LET order == pre.orders[last.args.order_id]
           IN  Balance(accounts, order.owner)
                   = Balance(pre.accounts, order.owner) + order.to_amount

(***************************************************************************)
(* C18.  Escrow accounting: in every reachable state the sum of all        *)
(* account balances plus the from_amount of the Created orders plus the    *)
(* from_amount of the Executed orders equals the sum of all successful     *)
(* deposits.                                                               *)
(***************************************************************************)
C18_EscrowAccounting ==
    SumBalances(accounts) + Escrowed(orders, "Created") + Escrowed(orders, "Executed")
        = deposited

(***************************************************************************)
(* The create_swap_order case of C13: a call that reached the debit        *)
(* (lib.rs 216-217) and then panicked in next_id leaves no debit behind,   *)
(* and a balance changed by create_swap_order comes with the stored order. *)
(* The execute_swap_order case of C13 needs a stored order.                *)
(***************************************************************************)
CreateIsAllOrNothing ==
    last.op = "create_swap_order" =>
        /\ last.result # "Ok" =>
               SameBalances(accounts, pre.accounts) /\ orders = pre.orders
                   /\ counter = pre.counter
        /\ ~SameBalances(accounts, pre.accounts) =>
               Has(orders, last.ret) /\ orders[last.ret].status = "Created"

\* a funded create_swap_order that trapped
TrappedCreateReached == C1_FundedCreate /\ last.result = "Trap"

====
